---- MODULE Spec2Model ----
(***************************************************************************)
(* A model of src/exploracion_datos.py (class DataExplorer and main).      *)
(*                                                                         *)
(* Text is modelled as a sequence of one-character strings, so that the    *)
(* string operations of the program (upper, replace, split/join, strip,    *)
(* substring search) are computed and not assumed.  A Python value is a    *)
(* record [t |-> <type name>, v |-> <the text str(value) gives>].          *)
(***************************************************************************)
EXTENDS Integers, Sequences, FiniteSets, TLC

VARIABLES
    disk,                \* the files under data_dir: path -> content
    selected_folders,    \* the folders main() got from select_crime_folders
    excel_files,         \* self.excel_files
    stats,               \* self.stats
    unified_data,        \* self.unified_data
    exploration_results, \* self.exploration_results
    pc,                  \* where main() is
    i,                   \* the index of main()'s loop over excel_files
    call,                \* the last analyze_file call: its argument, locals and result
    coercions,           \* <<cell as read, cell after applymap>> of every ingested cell
    fragments,           \* the column lists of the frames appended to dfs, per folder
    summary,             \* the table build_summary_table returned, per crime type
    label,               \* an argument of normalize_column
    once,                \* normalize_column(label)
    twice,               \* normalize_column(normalize_column(label))
    variant,             \* a second label, and its normalisation
    df_columns,          \* the columns of a frame given to map_columns_to_standard
    mapped               \* the columns of the frame it returns

vars == <<disk, selected_folders, excel_files, stats, unified_data,
          exploration_results, pc, i, call, coercions, fragments, summary,
          label, once, twice, variant, df_columns, mapped>>

runVars == <<disk, selected_folders, excel_files, stats, unified_data,
             exploration_results, pc, i, call, coercions, fragments, summary>>
normVars == <<label, once, twice, variant>>
mapVars == <<df_columns, mapped>>

----------------------------------------------------------------------------
(* Bounds of the model *)

MaxLen == 4
MaxFiles == 2
MaxRows == 1
MaxMapCols == 2

----------------------------------------------------------------------------
(* Text *)

RECURSIVE Flatten(_)
Flatten(ss) == IF ss = <<>> THEN <<>> ELSE Head(ss) \o Flatten(Tail(ss))

\* needle in haystack (Python's substring test).
Contains(haystack, needle) ==
    \E k \in 0..(Len(haystack) - Len(needle)) :
        SubSeq(haystack, k + 1, k + Len(needle)) = needle

\* str.upper() and str.lower(), a character at a time: the letters of the model's
\* texts; its other characters (digits, blanks, punctuation, marks) have no case.
UpperOf ==
    ("a" :> "A") @@ ("b" :> "B") @@ ("c" :> "C") @@ ("d" :> "D") @@
    ("e" :> "E") @@ ("f" :> "F") @@ ("g" :> "G") @@ ("h" :> "H") @@
    ("i" :> "I") @@ ("j" :> "J") @@ ("k" :> "K") @@ ("l" :> "L") @@
    ("m" :> "M") @@ ("n" :> "N") @@ ("o" :> "O") @@ ("p" :> "P") @@
    ("q" :> "Q") @@ ("r" :> "R") @@ ("s" :> "S") @@ ("t" :> "T") @@
    ("u" :> "U") @@ ("v" :> "V") @@ ("w" :> "W") @@ ("x" :> "X") @@
    ("y" :> "Y") @@ ("z" :> "Z") @@ ("é" :> "É") @@ ("ñ" :> "Ñ")

LowerOf ==
    ("A" :> "a") @@ ("B" :> "b") @@ ("C" :> "c") @@ ("D" :> "d") @@
    ("E" :> "e") @@ ("F" :> "f") @@ ("G" :> "g") @@ ("H" :> "h") @@
    ("I" :> "i") @@ ("J" :> "j") @@ ("K" :> "k") @@ ("L" :> "l") @@
    ("M" :> "m") @@ ("N" :> "n") @@ ("O" :> "o") @@ ("P" :> "p") @@
    ("Q" :> "q") @@ ("R" :> "r") @@ ("S" :> "s") @@ ("T" :> "t") @@
    ("U" :> "u") @@ ("V" :> "v") @@ ("W" :> "w") @@ ("X" :> "x") @@
    ("Y" :> "y") @@ ("Z" :> "z") @@ ("É" :> "é") @@ ("Ñ" :> "ñ")

Upper(s) == [k \in 1..Len(s) |-> IF s[k] \in DOMAIN UpperOf THEN UpperOf[s[k]] ELSE s[k]]
Lower(s) == [k \in 1..Len(s) |-> IF s[k] \in DOMAIN LowerOf THEN LowerOf[s[k]] ELSE s[k]]

\* str.isspace(): the characters str.split() and str.strip() treat as blank.
Whitespace == {" ", "\t"}

\* unicodedata.normalize('NFD', c) of one character: the canonical decomposition.
NFD ==
    ("É" :> <<"E", "U+0301">>) @@ ("é" :> <<"e", "U+0301">>) @@
    ("Ñ" :> <<"N", "U+0303">>) @@ ("ñ" :> <<"n", "U+0303">>)

\* unicodedata.category(c) = 'Mn': the combining marks.
Mn == {"U+0301", "U+0303"}

Decompose(s) ==
    Flatten([k \in 1..Len(s) |-> IF s[k] \in DOMAIN NFD THEN NFD[s[k]] ELSE <<s[k]>>])

\* s.split(): the maximal runs of non-blank characters of s, in order.
RECURSIVE Split(_)
Split(s) ==
    IF s = <<>> THEN <<>>
    ELSE IF Head(s) \in Whitespace THEN Split(Tail(s))
    ELSE LET rest == Split(Tail(s))
         IN  IF Len(s) > 1 /\ s[2] \notin Whitespace
             THEN <<(<<Head(s)>> \o Head(rest))>> \o Tail(rest)
             ELSE <<(<<Head(s)>>)>> \o rest

\* sep.join(words)
RECURSIVE Join(_, _)
Join(sep, words) ==
    IF words = <<>> THEN <<>>
    ELSE IF Len(words) = 1 THEN Head(words)
    ELSE Head(words) \o sep \o Join(sep, Tail(words))

\* s.lstrip(chars), s.rstrip(chars), s.strip(chars)
RECURSIVE LStrip(_, _)
LStrip(s, chars) ==
    IF s # <<>> /\ Head(s) \in chars THEN LStrip(Tail(s), chars) ELSE s

RECURSIVE RStrip(_, _)
RStrip(s, chars) ==
    IF s # <<>> /\ s[Len(s)] \in chars THEN RStrip(SubSeq(s, 1, Len(s) - 1), chars) ELSE s

Strip(s, chars) == RStrip(LStrip(s, chars), chars)

----------------------------------------------------------------------------
(* normalize_column *)

ReplaceUnderscore(s) == [k \in 1..Len(s) |-> IF s[k] = "_" THEN " " ELSE s[k]]

DropMarks(s) == SelectSeq(s, LAMBDA c : c \notin Mn)

normalize_column(col) ==
    LET c1 == ReplaceUnderscore(Upper(col))
        c2 == DropMarks(Decompose(c1))
        c3 == Join(<<" ">>, Split(c2))
    IN  Strip(c3, {"*"})

----------------------------------------------------------------------------
(* Python values *)

\* A str, an int, the float NaN and None, each with the text str() gives.
StrVal(text) == [t |-> "str", v |-> text]
IntVal(digits) == [t |-> "int", v |-> digits]
NaN == [t |-> "float", v |-> <<"n", "a", "n">>]
None == [t |-> "NoneType", v |-> <<"N", "o", "n", "e">>]

\* str(x)
PyStr(x) == x.v

----------------------------------------------------------------------------
(* COLUMN_SYNONYMS and map_columns_to_standard *)

\* The canonical column names, as texts.
DEPARTAMENTO ==
    <<"D", "E", "P", "A", "R", "T", "A", "M", "E", "N", "T", "O">>
MUNICIPIO ==
    <<"M", "U", "N", "I", "C", "I", "P", "I", "O">>
CODIGO_DANE ==
    <<"C", "O", "D", "I", "G", "O", " ", "D", "A", "N", "E">>
ARMAS_MEDIOS ==
    <<"A", "R", "M", "A", "S", " ", "M", "E", "D", "I", "O", "S">>
FECHA_HECHO ==
    <<"F", "E", "C", "H", "A", " ", "H", "E", "C", "H", "O">>
GENERO ==
    <<"G", "E", "N", "E", "R", "O">>
AGRUPA_EDAD_PERSONA ==
    <<"A", "G", "R", "U", "P", "A", " ", "E", "D", "A", "D", " ", "P", "E", "R", "S", "O", "N", "A">>
CANTIDAD ==
    <<"C", "A", "N", "T", "I", "D", "A", "D">>

\* COLUMN_SYNONYMS: its (key, synonym list) items in the order of the dict literal,
\* which is the order .items() and .keys() give.
COLUMN_SYNONYMS == <<
    [std_col |-> DEPARTAMENTO,
     synonyms |-> <<
            <<"D", "E", "P", "A", "R", "T", "A", "M", "E", "N", "T", "O">>,
            <<"D", "E", "P", "T", "O">>,
            <<"D", "E", "P", "T", "O", ".">>,
            <<"D", "E", "P", "A", "R", "T", "A", "M", "E", "N", "T", "O", "*">>,
            <<"D", "E", "P", "A", "R", "T", "A", "M", "E", "N", "T", "O", " ">>,
            <<"D", "E", "P", "A", "R", "T", "A", "M", "E", "N", "T", "O", " ", " ">>,
            <<"D", "E", "P", "A", "R", "T", "A", "M", "E", "N", "T", "O", "*">> >>],
    [std_col |-> MUNICIPIO,
     synonyms |-> <<
            <<"M", "U", "N", "I", "C", "I", "P", "I", "O">>,
            <<"M", "U", "N", "I", "C", "I", "P", "I", "O", "*">>,
            <<"M", "U", "N", "I", "C", "I", "P", "I", "O", " ">>,
            <<"M", "U", "N", "I", "C", "I", "P", "I", "O", " ", " ">> >>],
    [std_col |-> CODIGO_DANE,
     synonyms |-> <<
            <<"C", "O", "D", "I", "G", "O", " ", "D", "A", "N", "E">>,
            <<"C", "O", "D", " ", "D", "A", "N", "E">>,
            <<"D", "A", "N", "E">>,
            <<"C", "O", "D", "I", "G", "O", "_", "D", "A", "N", "E">>,
            <<"C", "O", "D", "I", "G", "O", " ", "D", "A", "N", "E", " ">>,
            <<"C", "O", "D", "I", "G", "O", "_", "D", "A", "N", "E", " ">>,
            <<"C", "O", "D", "I", "G", "O", " ", "D", "A", "N", "E", "*">>,
            <<"C", "O", "D", "I", "G", "O", "_", "D", "A", "N", "E", "*">> >>],
    [std_col |-> ARMAS_MEDIOS,
     synonyms |-> <<
            <<"A", "R", "M", "A", "S", " ", "M", "E", "D", "I", "O", "S">>,
            <<"A", "R", "M", "A", " ", "M", "E", "D", "I", "O">>,
            <<"A", "R", "M", "A">>,
            <<"M", "E", "D", "I", "O">>,
            <<"A", "R", "M", "A", " ", "M", "E", "D", "I", "O", "S">>,
            <<"A", "R", "M", "A", "S", "_", "M", "E", "D", "I", "O", "S">>,
            <<"A", "R", "M", "A", " ", "M", "E", "D", "I", "O", " ">>,
            <<"A", "R", "M", "A", " ", "M", "E", "D", "I", "O", " ", " ">>,
            <<"A", "R", "M", "A", " ", "M", "E", "D", "I", "O", " ", "*">> >>],
    [std_col |-> FECHA_HECHO,
     synonyms |-> <<
            <<"F", "E", "C", "H", "A", " ", "H", "E", "C", "H", "O">>,
            <<"F", "E", "C", "H", "A">>,
            <<"F", "E", "C", "H", "A", "_", "H", "E", "C", "H", "O">>,
            <<"F", "E", "C", "H", "A", " ", "D", "E", "L", " ", "H", "E", "C", "H", "O">>,
            <<"F", "E", "C", "H", "A", " ", "H", "E", "C", "H", "O", " ">>,
            <<"F", "E", "C", "H", "A", " ">>,
            <<"F", "E", "C", "H", "A", " ", " ">> >>],
    [std_col |-> GENERO,
     synonyms |-> <<
            <<"G", "E", "N", "E", "R", "O">>,
            <<"G", "É", "N", "E", "R", "O">>,
            <<"G", "E", "N", "E", "R", "O", "*">>,
            <<"G", "E", "N", "E", "R", "O", " ">>,
            <<"G", "E", "N", "E", "R", "O", " ", " ">> >>],
    [std_col |-> AGRUPA_EDAD_PERSONA,
     synonyms |-> <<
            <<"A", "G", "R", "U", "P", "A", " ", "E", "D", "A", "D", " ", "P", "E", "R", "S", "O", "N", "A">>,
            <<"E", "D", "A", "D">>,
            <<"E", "D", "A", "D", " ", "P", "E", "R", "S", "O", "N", "A">>,
            <<"A", "G", "R", "U", "P", "A", "_", "E", "D", "A", "D", "_", "P", "E", "R", "S", "O", "N", "A">>,
            <<"A", "G", "R", "U", "P", "A", " ", "E", "D", "A", "D", " ", "P", "E", "R", "S", "O", "N", "A", "*">>,
            <<"*", "A", "G", "R", "U", "P", "A", " ", "E", "D", "A", "D", " ", "P", "E", "R", "S", "O", "N", "A">>,
            <<"*", "A", "G", "R", "U", "P", "A", "_", "E", "D", "A", "D", "_", "P", "E", "R", "S", "O", "N", "A">>,
            <<"A", "G", "R", "U", "P", "A", " ", "E", "D", "A", "D", " ", "P", "E", "R", "S", "O", "N", "A", " ">>,
            <<"A", "G", "R", "U", "P", "A", "_", "E", "D", "A", "D", "_", "P", "E", "R", "S", "O", "N", "A", " ">> >>],
    [std_col |-> CANTIDAD,
     synonyms |-> <<
            <<"C", "A", "N", "T", "I", "D", "A", "D">>,
            <<"C", "A", "N", "T">>,
            <<"C", "A", "N", "T", "I", "D", "A", "D", "*">>,
            <<"C", "A", "N", "T", "I", "D", "A", "D", " ">>,
            <<"C", "A", "N", "T", "I", "D", "A", "D", " ", " ">> >>] >>

\* list(COLUMN_SYNONYMS.keys())
key_columns == [k \in 1..Len(COLUMN_SYNONYMS) |-> COLUMN_SYNONYMS[k].std_col]

\* [self.normalize_column(s) for s in synonyms], as the set `in` searches.
NormalizedSynonyms(synonyms) ==
    {normalize_column(synonyms[k]) : k \in 1..Len(synonyms)}

\* That list for each item of COLUMN_SYNONYMS: it is the same at every turn of the
\* loops that build it.
normalized_synonyms ==
    [n \in 1..Len(COLUMN_SYNONYMS) |-> NormalizedSynonyms(COLUMN_SYNONYMS[n].synonyms)]

\* col_map after the first n items of COLUMN_SYNONYMS: a later item's assignment
\* to the same key replaces an earlier one.
RECURSIVE ColMap(_, _)
ColMap(columns, n) ==
    IF n = 0 THEN <<>>
    ELSE LET item == COLUMN_SYNONYMS[n]
             hits == {columns[k] : k \in {j \in 1..Len(columns) :
                         normalize_column(PyStr(columns[j]))
                             \in normalized_synonyms[n]}}
         IN  [c \in hits |-> StrVal(item.std_col)] @@ ColMap(columns, n - 1)

\* df.rename(columns=col_map): the column labels of the result.
Rename(columns, col_map) ==
    [k \in 1..Len(columns) |->
        IF columns[k] \in DOMAIN col_map THEN col_map[columns[k]] ELSE columns[k]]

\* A faulty variant of map_columns_to_standard: col_map is keyed by the normalized label
\* instead of the frame's own label.
RECURSIVE ColMapByNormalized(_, _)
ColMapByNormalized(columns, n) ==
    IF n = 0 THEN <<>>
    ELSE LET item == COLUMN_SYNONYMS[n]
             hits == {StrVal(normalize_column(PyStr(columns[k]))) : k \in {j \in 1..Len(columns) :
                         normalize_column(PyStr(columns[j]))
                             \in normalized_synonyms[n]}}
         IN  [c \in hits |-> StrVal(item.std_col)] @@ ColMapByNormalized(columns, n - 1)

map_columns_keyed_by_normalized(columns) ==
    Rename(columns, ColMapByNormalized(columns, Len(COLUMN_SYNONYMS)))

\* map_columns_to_standard(df): the column labels of the frame it returns (the
\* cells are untouched).
map_columns_to_standard(columns) ==
    Rename(columns, ColMap(columns, Len(COLUMN_SYNONYMS)))

\* normalize_columns(df): the column labels after it.
normalize_columns(columns) ==
    [k \in 1..Len(columns) |-> StrVal(normalize_column(PyStr(columns[k])))]

----------------------------------------------------------------------------
(* The files under data_dir *)

\* Paths under data_dir, in the order os.walk lists them: the folder directly
\* under data_dir, the file's name and its extension.
Paths == <<
    [folder |-> "HURTO", name |-> "a", ext |-> ".xlsx"],
    [folder |-> "HURTO", name |-> "b", ext |-> ".xls"],
    [folder |-> "HOMICIDIOS", name |-> "c", ext |-> ".xlsx"],
    [folder |-> "HURTO", name |-> "d", ext |-> ".csv"] >>

\* The directories of data_dir (get_available_crime_folders), sorted.
Folders == <<"HOMICIDIOS", "HURTO">>

\* A workbook's first sheet by layout: the rows above the data.  A cell holds a
\* text, a number, or nothing (None).
Layouts == <<
    \* the header in the first row
    << <<StrVal(DEPARTAMENTO), StrVal(FECHA_HECHO)>> >>,
    \* a title row, then a header with two synonyms of one canonical column
    << <<StrVal(<<"R", "E", "P", "O", "R", "T", "E">>), None>>,
       <<StrVal(<<"F", "E", "C", "H", "A">>), StrVal(FECHA_HECHO)>> >>,
    \* a header with a number in it
    << <<IntVal(<<"2", "0", "2", "0">>), StrVal(CANTIDAD)>> >>,
    \* a header with markers, lower case, an accent and a trailing blank
    << <<StrVal(<<"M", "u", "n", "i", "c", "i", "p", "i", "o", "_", "*">>), StrVal(<<"G", "é", "n", "e", "r", "o", " ">>)>> >>,
    \* no keyword in any row
    << <<StrVal(<<"N", "O", "M", "B", "R", "E">>), None>> >>,
    \* ten rows without a keyword, then a header without one
    << <<StrVal(<<"R", "E", "P", "O", "R", "T", "E">>), None>>, <<None, None>>, <<None, None>>,
       <<None, None>>, <<None, None>>, <<None, None>>, <<None, None>>,
       <<None, None>>, <<None, None>>, <<None, StrVal(<<"T", "O", "T", "A", "L">>)>>,
       <<StrVal(<<"N", "O", "M", "B", "R", "E">>), StrVal(<<"T", "O", "T", "A", "L">>)>> >> >>

\* The data rows a sheet may hold under its layout, first to last.
DataRows == <<
    <<None, StrVal(<<"2", "0", "2", "0", "-", "0", "1", "-", "0", "5">>)>>,
    <<StrVal(<<"2", "0", "2", "1", "-", "0", "3", "-", "0", "3">>), StrVal(<<"2", "0", "2", "0", "-", "0", "6", "-", "0", "1">>)>>,
    <<StrVal(<<"2", "0", "2", "1", "-", "0", "3", "-", "0", "3">>), None>>,
    <<StrVal(<<"A", "N", "T", "I", "O", "Q", "U", "I", "A">>), StrVal(<<"2", "0", "2", "1", "-", "0", "3", "-", "0", "3">>)>> >>

\* What a path may hold: a workbook that opens, with its rows, or bytes that no
\* decoder reads.
Contents ==
    {[ok |-> TRUE, rows |-> Layouts[l] \o SubSeq(DataRows, 1, n)] :
        l \in 1..Len(Layouts), n \in 0..MaxRows}
    \cup {[ok |-> FALSE, rows |-> <<>>]}

\* The disks: at most MaxFiles of the paths exist.
Disks ==
    UNION {[present -> Contents] :
        present \in {ps \in SUBSET (1..Len(Paths)) : Cardinality(ps) <= MaxFiles}}

----------------------------------------------------------------------------
(* find_header_row *)

MaxRowsScan == 30
FallbackHeaderRow == 10

SupportedExts == {".xlsx", ".xls"}

search_keywords == {DEPARTAMENTO, MUNICIPIO, <<"F", "E", "C", "H", "A">>, FECHA_HECHO, CANTIDAD}

\* The content of a path; a path that does not exist opens no better than bytes
\* no decoder reads.
FileAt(d, p) == IF p \in DOMAIN d THEN d[p] ELSE [ok |-> FALSE, rows |-> <<>>]

\* A cell as openpyxl's iter_rows(values_only=True) gives it.
OpenpyxlValue(cell) == cell

\* A cell as xlrd's row_values gives it: an empty cell is '', a number a float.
XlrdValue(cell) ==
    IF cell = None THEN StrVal(<<>>)
    ELSE IF cell.t = "int" THEN [t |-> "float", v |-> cell.v \o <<".", "0">>]
    ELSE cell

\* row_str = [str(cell).strip().upper() if cell is not None else "" for cell in row]
RowStr(row) ==
    [k \in 1..Len(row) |->
        IF row[k] # None THEN Upper(Strip(PyStr(row[k]), Whitespace)) ELSE <<>>]

\* any(any(keyword in cell for keyword in search_keywords) for cell in row_str)
HasKeyword(row_str) ==
    \E k \in 1..Len(row_str) : \E keyword \in search_keywords :
        Contains(row_str[k], keyword)

\* A faulty variant of ScanRows: the loop does not stop after max_rows rows.
ScanRowsUnbounded(rows, max_rows) ==
    LET hits == {r \in 1..Len(rows) : HasKeyword(RowStr(rows[r]))}
    IN  IF hits = {} THEN FallbackHeaderRow
        ELSE (CHOOSE r \in hits : \A q \in hits : r <= q) - 1

\* The loop over the first max_rows rows: the index of the first row with a
\* keyword, and the fallback when the loop ends without one.
ScanRows(rows, max_rows) ==
    LET scanned == 1..(IF max_rows < Len(rows) THEN max_rows ELSE Len(rows))
        hits == {r \in scanned : HasKeyword(RowStr(rows[r]))}
    IN  IF hits = {} THEN FallbackHeaderRow
        ELSE (CHOOSE r \in hits : \A q \in hits : r <= q) - 1

find_header_row(d, p) ==
    LET ext == Paths[p].ext
        file == FileAt(d, p)
    IN  IF ext = ".xlsx" THEN
            IF ~file.ok THEN FallbackHeaderRow   \* load_workbook raised
            ELSE ScanRows([r \in 1..Len(file.rows) |->
                     [k \in 1..Len(file.rows[r]) |-> OpenpyxlValue(file.rows[r][k])]],
                     MaxRowsScan)
        ELSE IF ext = ".xls" THEN
            IF ~file.ok THEN FallbackHeaderRow   \* open_workbook raised
            ELSE ScanRows([r \in 1..Len(file.rows) |->
                     [k \in 1..Len(file.rows[r]) |-> XlrdValue(file.rows[r][k])]],
                     MaxRowsScan)
        ELSE FallbackHeaderRow

----------------------------------------------------------------------------
(* pd.read_excel(file_path, header=header_row, dtype=str, engine=...) *)

Digits == <<"0", "1", "2", "3", "4", "5", "6", "7", "8", "9">>

\* str(n) of a natural number.
RECURSIVE ToText(_)
ToText(n) == IF n < 10 THEN <<Digits[n + 1]>> ELSE ToText(n \div 10) \o <<Digits[(n % 10) + 1]>>

\* The label pandas gives column k (from 1) of the header row: a cell without a
\* value is 'Unnamed: <k-1>', a label seen c times before gets '.<c>' appended, a
\* number stays a number.
HeaderLabel(header, k) ==
    LET seen == Cardinality({j \in 1..(k - 1) : header[j] = header[k]})
    IN  IF header[k] = None THEN StrVal(<<"U", "n", "n", "a", "m", "e", "d", ":", " ">> \o ToText(k - 1))
        ELSE IF seen > 0 THEN StrVal(PyStr(header[k]) \o <<".">> \o ToText(seen))
        ELSE header[k]

\* A data cell read with dtype=str: its text, and NaN where the cell has no value.
ReadCell(cell) == IF cell = None THEN NaN ELSE StrVal(PyStr(cell))

\* The frame read, or raised: the file does not decode, or the header row is past
\* the last row of the sheet.
read_excel(d, p, header_row) ==
    LET file == FileAt(d, p)
        rows == file.rows
    IN  IF ~file.ok \/ header_row >= Len(rows) THEN [raised |-> TRUE]
        ELSE LET header == rows[header_row + 1]
                 data == SubSeq(rows, header_row + 2, Len(rows))
             IN  [raised |-> FALSE,
                  columns |-> [k \in 1..Len(header) |-> HeaderLabel(header, k)],
                  rows |-> [r \in 1..Len(data) |->
                               [k \in 1..Len(data[r]) |-> ReadCell(data[r][k])]]]

\* The lambda of df.applymap(lambda x: str(x) if x is not None else "")
CoerceCell(x) == IF x # None THEN StrVal(PyStr(x)) ELSE StrVal(<<>>)

applymap(df) ==
    [df EXCEPT !.rows = [r \in 1..Len(df.rows) |->
                            [k \in 1..Len(df.rows[r]) |-> CoerceCell(df.rows[r][k])]]]

\* The pairs <<cell read, cell after applymap>> of a frame.
CoercionsOf(df) ==
    {<<df.rows[r][k], CoerceCell(df.rows[r][k])>> :
        r \in 1..Len(df.rows), k \in 1..Len(df.columns)}

\* pd.isnull(x)
IsNull(x) == x = None \/ x = NaN

\* The cells of column k of a frame, first row to last.
Column(df, k) == [r \in 1..Len(df.rows) |-> df.rows[r][k]]

Range(f) == {f[x] : x \in DOMAIN f}

----------------------------------------------------------------------------
(* The statistics of a run: self.stats.  A dict is a function on its keys. *)

\* self.stats as __init__ leaves it.
InitialStats ==
    [total_files |-> 0, processed_files |-> 0, error_files |-> 0,
     yearly_stats |-> <<>>, column_stats |-> <<>>, missing_values |-> <<>>,
     data_types |-> <<>>, records_per_file |-> <<>>, total_records |-> 0]

\* d[key] = value
Put(d, key, value) == (key :> value) @@ d

\* d.get(key, default)
Get(d, key, default) == IF key \in DOMAIN d THEN d[key] ELSE default

\* str(df[col].dtype): after applymap the cells of a column are Python objects.
DType(cells) == "object"

\* The loop of analyze_dataframe over the first n columns: a column the category
\* already has an entry for is skipped.
RECURSIVE ColumnStats(_, _, _)
ColumnStats(entries, df, n) ==
    IF n = 0 THEN entries
    ELSE LET before == ColumnStats(entries, df, n - 1)
             col == df.columns[n]
             cells == Column(df, n)
         IN  IF col \in DOMAIN before THEN before
             ELSE Put(before, col,
                      [unique_values |-> Cardinality(Range(cells)),
                       missing_values |-> Cardinality({r \in DOMAIN cells : IsNull(cells[r])}),
                       data_type |-> DType(cells)])

\* missing = df.isnull().sum(); missing[missing > 0].to_dict()
MissingPerColumn(df) ==
    LET count(k) == Cardinality({r \in 1..Len(df.rows) : IsNull(df.rows[r][k])})
        cols == {k \in 1..Len(df.columns) : count(k) > 0}
    IN  [col \in {df.columns[k] : k \in cols} |->
            count(CHOOSE k \in cols : df.columns[k] = col)]

analyze_dataframe(st, df, crime_type) ==
    LET entries == Get(st.column_stats, crime_type, <<>>)
    IN  [st EXCEPT
            !.column_stats = Put(@, crime_type, ColumnStats(entries, df, Len(df.columns))),
            !.missing_values = Put(@, crime_type, MissingPerColumn(df))]

date_indicators == {<<"f", "e", "c", "h", "a">>, <<"a", "ñ", "o">>, <<"y", "e", "a", "r">>, <<"d", "a", "t", "e">>,
                    <<"p", "e", "r", "i", "o", "d", "o">>, <<"m", "e", "s">>}

\* find_date_column: the index of the first column whose lower-cased label holds
\* an indicator, 0 for None; a label that is no str has no lower() and raises.
RECURSIVE FindDateFrom(_, _)
FindDateFrom(columns, k) ==
    IF k > Len(columns) THEN [raised |-> FALSE, col |-> 0]
    ELSE IF columns[k].t # "str" THEN [raised |-> TRUE, col |-> 0]
    ELSE IF \E indicator \in date_indicators : Contains(Lower(columns[k].v), indicator)
         THEN [raised |-> FALSE, col |-> k]
    ELSE FindDateFrom(columns, k + 1)

find_date_column(df) == FindDateFrom(df.columns, 1)

IsDigit(c) == \E k \in 1..Len(Digits) : Digits[k] = c
DigitValue(c) == (CHOOSE k \in 1..Len(Digits) : Digits[k] = c) - 1

\* pd.to_datetime(text, errors='coerce').year for the texts of the model's cells:
\* the year of a YYYY-MM-DD date, 0 for NaT (any other text).
YearOf(text) ==
    IF /\ Len(text) = 10
       /\ \A k \in {1, 2, 3, 4, 6, 7, 9, 10} : IsDigit(text[k])
       /\ text[5] = "-" /\ text[8] = "-"
    THEN 1000 * DigitValue(text[1]) + 100 * DigitValue(text[2])
         + 10 * DigitValue(text[3]) + DigitValue(text[4])
    ELSE 0

\* years.value_counts().to_dict(): NaT is not counted.
YearCounts(cells) ==
    LET years == {YearOf(PyStr(cells[r])) : r \in DOMAIN cells} \ {0}
    IN  [y \in years |-> Cardinality({r \in DOMAIN cells : YearOf(PyStr(cells[r])) = y})]

analyze_dates(st, df, date_col, crime_type) ==
    LET year_counts == YearCounts(Column(df, date_col))
        old == Get(st.yearly_stats, crime_type, <<>>)
        new == [y \in DOMAIN old \cup DOMAIN year_counts |->
                   Get(old, y, 0) + Get(year_counts, y, 0)]
    IN  [st EXCEPT !.yearly_stats = Put(@, crime_type, new)]

---------------------------------------------------------------------------------------------------------------------------------------------------
(* build_summary_table *)

\* The sum of f over the set S.
RECURSIVE Sum(_, _)
Sum(f, S) ==
    IF S = {} THEN 0
    ELSE LET x == CHOOSE y \in S : TRUE IN f[x] + Sum(f, S \ {x})

\* sorted(years_info.items()): the <<year, count>> pairs by rising year.
RECURSIVE SortedItems(_)
SortedItems(years_info) ==
    IF DOMAIN years_info = {} THEN <<>>
    ELSE LET y == CHOOSE x \in DOMAIN years_info : \A z \in DOMAIN years_info : x <= z
         IN  <<(<<y, years_info[y]>>)>>
             \o SortedItems([z \in DOMAIN years_info \ {y} |-> years_info[z]])

\* missing_str: the listing col: count of a dict that is not empty, and "0".
MissingStr(missing_info) ==
    IF DOMAIN missing_info # {}
    THEN [t |-> "listing", v |-> missing_info]
    ELSE [t |-> "str", v |-> <<"0">>]

\* The row of one crime type.  'Años y Registros' is kept as the sorted items it
\* is rendered from, 'Columnas (únicos)' as the unique count per column.
SummaryRow(st, crime_type, archivos) ==
    [archivos_procesados |-> Cardinality(archivos),
     registros_procesados |-> Sum(st.records_per_file, archivos),
     years |-> SortedItems(Get(st.yearly_stats, crime_type, <<>>)),
     columnas |-> [col \in DOMAIN st.column_stats[crime_type] |->
                      st.column_stats[crime_type][col].unique_values],
     valores_faltantes |-> MissingStr(Get(st.missing_values, crime_type, <<>>))]

\* The table, one row per crime type of column_stats.
build_summary_table(st) ==
    [crime_type \in DOMAIN st.column_stats |->
        SummaryRow(st, crime_type,
            {f \in DOMAIN st.records_per_file : f.folder = crime_type})]

-----
(* analyze_file *)

\* A faulty variant of CountError: the handler forgets the counter.
CountErrorNot(st) == st

\* The except clause of analyze_file.
CountError(st) == [st EXCEPT !.error_files = @ + 1]

\* A faulty variant of UnsupportedFormat: the file is also recorded, with no records.
UnsupportedFormatRecorded(st, p) ==
    [st EXCEPT !.error_files = @ + 1, !.records_per_file = Put(@, Paths[p], 0)]

\* The else branch of the dispatch on the extension.
UnsupportedFormat(st, p) == [st EXCEPT !.error_files = @ + 1]

\* Contar registros procesados
CountRecords(st, p, num_records) ==
    [st EXCEPT !.records_per_file = Put(@, Paths[p], num_records),
               !.total_records = @ + num_records]

\* analyze_file(file_path) on the stats st: the stats after it, what it returned,
\* its local header_row, and the cells it coerced.
analyze_file(st, d, p) ==
    LET ext == Paths[p].ext
        header_row == find_header_row(d, p)
        read == read_excel(d, p, header_row)
        out(st1, ret, cells) ==
            [stats |-> st1, returned |-> ret, header_row |-> header_row, coerced |-> cells]
    IN  IF ext \notin SupportedExts THEN out(UnsupportedFormat(st, p), FALSE, {})
        ELSE IF read.raised THEN out(CountError(st), FALSE, {})
        ELSE LET df == applymap(read)
                 crime_type == Paths[p].folder
                 st1 == CountRecords(st, p, Len(df.rows))
                 st2 == analyze_dataframe(st1, df, crime_type)
                 date_col == find_date_column(df)
             IN  IF date_col.raised
                 THEN out(CountError(st2), FALSE, CoercionsOf(read))
                 ELSE LET st3 == IF date_col.col # 0
                                 THEN analyze_dates(st2, df, date_col.col, crime_type)
                                 ELSE st2
                      IN  out([st3 EXCEPT !.processed_files = @ + 1], TRUE,
                              CoercionsOf(read))

----------------------------------------------------------------------------
(* unify_and_explore_by_folder *)

\* The elements of a set of numbers, ascending.
RECURSIVE Ascending(_)
Ascending(S) ==
    IF S = {} THEN <<>>
    ELSE LET m == CHOOSE x \in S : \A y \in S : x <= y
         IN  <<m>> \o Ascending(S \ {m})

\* The columns of a frame at the indexes idx, in that order.
SelectColumns(df, idx) ==
    [columns |-> [j \in 1..Len(idx) |-> df.columns[idx[j]]],
     rows |-> [r \in 1..Len(df.rows) |-> [j \in 1..Len(idx) |-> df.rows[r][idx[j]]]]]

\* file.endswith(('.xlsx', '.xls')) over os.walk(folder_path), in walk order.
WalkExcel(d, folder) ==
    Ascending({p \in DOMAIN d : Paths[p].folder = folder /\ Paths[p].ext \in SupportedExts})

\* cols_to_drop, and df.drop(columns=cols_to_drop): a column that normalizes to a
\* canonical name without bearing it goes.
DropVariants(df) ==
    LET cols_to_drop ==
            {df.columns[k] : k \in {j \in 1..Len(df.columns) :
                \E n \in 1..Len(key_columns) :
                    /\ normalize_column(PyStr(df.columns[j])) = normalize_column(key_columns[n])
                    /\ df.columns[j] # StrVal(key_columns[n])}}
    IN  SelectColumns(df, Ascending({k \in 1..Len(df.columns) : df.columns[k] \notin cols_to_drop}))

\* normalize_columns, map_columns_to_standard and the drop of the variants, on
\* the frame read.
Standardize(df) ==
    DropVariants([df EXCEPT !.columns = map_columns_to_standard(normalize_columns(@))])

\* dfs.append(df), with the cells that were coerced on the way.
Appended(df, coerced) ==
    [raised |-> FALSE, columns |-> df.columns, rows |-> df.rows, coerced |-> coerced]

\* The try after read_excel returned or raised.
TryRead(read) ==
    IF read.raised THEN [raised |-> TRUE]
    ELSE Appended(Standardize(applymap(read)), CoercionsOf(read))

\* The body of the loop for one file: the frame appended to dfs, or raised.
Fragment(d, p) ==
    TryRead(read_excel(d, p, find_header_row(d, p)))

\* dfs and the cells coerced after one more file: a file that raised adds nothing.
AppendFragment(before, f) ==
    IF f.raised THEN before
    ELSE [dfs |-> Append(before.dfs, [columns |-> f.columns, rows |-> f.rows]),
          coerced |-> before.coerced \cup f.coerced]

\* The loop over the first n files of a folder: the frames appended to dfs, and
\* the cells coerced on the way.
RECURSIVE Fragments(_, _, _)
Fragments(d, files, n) ==
    IF n = 0 THEN [dfs |-> <<>>, coerced |-> {}]
    ELSE AppendFragment(Fragments(d, files, n - 1), Fragment(d, files[n]))

\* The loop over all the files of a folder.
ReadFiles(d, files) ==
    Fragments(d, files, Len(files))

HasDuplicates(columns) ==
    \E a, b \in 1..Len(columns) : a < b /\ columns[a] = columns[b]

\* The labels of the frames, each once, in the order of their first appearance.
RECURSIVE UnionColumns(_)
UnionColumns(dfs) ==
    IF dfs = <<>> THEN <<>>
    ELSE LET before == UnionColumns(SubSeq(dfs, 1, Len(dfs) - 1))
             last == dfs[Len(dfs)].columns
         IN  before \o SelectSeq(last, LAMBDA c : c \notin Range(before))

\* pd.concat(dfs, ignore_index=True, sort=False).  Frames with unique labels are
\* aligned on the union of their labels, a cell a frame lacks being NaN.  Frames
\* that all bear one and the same list of labels are stacked as they are, repeated
\* labels included; a frame with a repeated label cannot be aligned on any other
\* list, and concat raises.
concat(dfs) ==
    IF \E n \in 1..Len(dfs) : HasDuplicates(dfs[n].columns) THEN
        IF \A n \in 1..Len(dfs) : dfs[n].columns = dfs[1].columns
        THEN [raised |-> FALSE, columns |-> dfs[1].columns,
              rows |-> Flatten([n \in 1..Len(dfs) |-> dfs[n].rows])]
        ELSE [raised |-> TRUE]
    ELSE LET columns == UnionColumns(dfs)
             aligned(df, row) ==
                 [k \in 1..Len(columns) |->
                     IF columns[k] \in Range(df.columns)
                     THEN row[CHOOSE j \in 1..Len(df.columns) : df.columns[j] = columns[k]]
                     ELSE NaN]
         IN  [raised |-> FALSE, columns |-> columns,
              rows |-> Flatten([n \in 1..Len(dfs) |->
                          [r \in 1..Len(dfs[n].rows) |-> aligned(dfs[n], dfs[n].rows[r])]])]

\* for col in key_columns: if col not in df_unified.columns: df_unified[col] = ''
RECURSIVE AddKeyColumns(_, _)
AddKeyColumns(df, n) ==
    IF n = 0 THEN df
    ELSE LET before == AddKeyColumns(df, n - 1)
         IN  IF StrVal(key_columns[n]) \in Range(before.columns) THEN before
             ELSE [columns |-> Append(before.columns, StrVal(key_columns[n])),
                   rows |-> [r \in 1..Len(before.rows) |->
                                Append(before.rows[r], StrVal(<<>>))]]

\* df_unified[key_columns]: for each key, in order, every column that bears it.
SelectKeyColumns(df) ==
    SelectColumns(df, Flatten([n \in 1..Len(key_columns) |->
        Ascending({k \in 1..Len(df.columns) : df.columns[k] = StrVal(key_columns[n])})]))

----------------------------------------------------------------------------
(* deep_exploration *)

\* df[col].value_counts(dropna=False).head(5): the values by falling count, equal
\* counts in the order of first appearance, as <<value, count>>.
RECURSIVE TopValues(_, _, _)
TopValues(cells, left, n) ==
    IF n = 0 \/ left = {} THEN <<>>
    ELSE LET count(v) == Cardinality({r \in DOMAIN cells : cells[r] = v})
             first(v) == CHOOSE r \in DOMAIN cells :
                             cells[r] = v /\ \A q \in DOMAIN cells : cells[q] = v => r <= q
             top == CHOOSE v \in left : \A w \in left :
                        count(v) > count(w) \/ (count(v) = count(w) /\ first(v) <= first(w))
         IN  <<(<<top, count(top)>>)>> \o TopValues(cells, left \ {top}, n - 1)

\* next((c for c in key_columns if 'AÑO' in c or 'YEAR' in c), None): the index of
\* the key, 0 for None.
YearColumn ==
    LET hits == {n \in 1..Len(key_columns) :
                    Contains(key_columns[n], <<"A", "Ñ", "O">>) \/ Contains(key_columns[n], <<"Y", "E", "A", "R">>)}
    IN  IF hits = {} THEN 0 ELSE CHOOSE n \in hits : \A m \in hits : n <= m

\* deep_exploration(df, key_columns) on a frame of unify_and_explore_by_folder: the
\* report, or raised: df[col] of a label two columns bear is a frame, which has no
\* dtype.
deep_exploration(df) ==
    LET keys == {n \in 1..Len(key_columns) : StrVal(key_columns[n]) \in Range(df.columns)}
        idx(n) == CHOOSE k \in 1..Len(df.columns) : df.columns[k] = StrVal(key_columns[n])
        cells(n) == Column(df, idx(n))
        per(F(_)) == [c \in {key_columns[n] : n \in keys} |->
                        F(cells(CHOOSE n \in keys : key_columns[n] = c))]
        count(cs, P(_)) == Cardinality({r \in DOMAIN cs : P(cs[r])})
        report ==
            [shape |-> <<Len(df.rows), Len(df.columns)>>,
             columnas |-> df.columns,
             nulos_por_columna |-> per(LAMBDA cs : count(cs, IsNull)),
             faltantes_por_columna |-> per(LAMBDA cs : count(cs, LAMBDA x : x = StrVal(<<>>))),
             tipos |-> per(DType),
             conteo_por_columna |-> per(LAMBDA cs : count(cs, LAMBDA x : ~IsNull(x))),
             unicos_por_columna |-> per(LAMBDA cs : Cardinality(Range(cs))),
             top_valores |-> per(LAMBDA cs : TopValues(cs, Range(cs), 5))]
    IN  IF \E n \in keys : Cardinality({k \in 1..Len(df.columns) :
                                df.columns[k] = StrVal(key_columns[n])}) > 1
        THEN [raised |-> TRUE]
        ELSE [raised |-> FALSE,
              report |->
                  IF YearColumn # 0 /\ YearColumn \in keys
                  THEN ("distribucion_año" :>
                           [v \in Range(cells(YearColumn)) |->
                               count(cells(YearColumn), LAMBDA x : x = v)]) @@ report
                  ELSE report]

\* pd.DataFrame()
EmptyFrame == [columns |-> <<>>, rows |-> <<>>]

\* self.unified_data[folder] = df_unified, then deep_exploration returned its
\* report or raised.
StoreExplored(read, folder, df_unified, explored) ==
    IF explored.raised
    THEN [read EXCEPT !.unified = Put(@, folder, df_unified), !.raised = TRUE]
    ELSE [read EXCEPT
             !.unified = Put(@, folder, df_unified),
             !.exploration = Put(@, folder, [is_dict |-> TRUE, value |-> explored.report])]

\* The key columns added and selected, the frame stored and explored.
StoreUnified(read, folder, df_unified) ==
    StoreExplored(read, folder, df_unified, deep_exploration(df_unified))

\* The branch `if dfs:` after pd.concat returned or raised.
StoreJoined(read, folder, joined) ==
    IF joined.raised THEN [read EXCEPT !.raised = TRUE]
    ELSE StoreUnified(read, folder,
             SelectKeyColumns(AddKeyColumns(
                 [columns |-> joined.columns, rows |-> joined.rows], Len(key_columns))))

\* The branch `else:` of `if dfs:`.
StoreEmpty(read, folder) ==
    [read EXCEPT
        !.unified = Put(@, folder, EmptyFrame),
        !.exploration = Put(@, folder, [is_dict |-> FALSE, value |-> "Sin datos"])]

\* The state after the files of one more folder were read: the labels of the
\* frames appended to dfs, and the cells coerced.
AfterLoop(before, folder, loop) ==
    [before EXCEPT
        !.fragments = Put(@, folder, [k \in 1..Len(loop.dfs) |-> loop.dfs[k].columns]),
        !.coerced = @ \cup loop.coerced]

\* One round of the loop over the folders, from the state before it and the
\* outcome of its loop over the files.
UnifyFolder(before, folder, loop) ==
    IF before.raised THEN before
    ELSE IF loop.dfs = <<>> THEN StoreEmpty(AfterLoop(before, folder, loop), folder)
    ELSE StoreJoined(AfterLoop(before, folder, loop), folder, concat(loop.dfs))

\* The state of unify_and_explore_by_folder after the first n selected folders:
\* unified_data, exploration_results, the frames appended to dfs per folder, the
\* cells coerced, and whether concat or deep_exploration raised, which ends the
\* call (neither is inside a try).
RECURSIVE UnifyFolders(_, _, _)
UnifyFolders(d, folders, n) ==
    IF n = 0
    THEN [unified |-> <<>>, exploration |-> <<>>, fragments |-> <<>>,
          coerced |-> {}, raised |-> FALSE]
    ELSE UnifyFolder(UnifyFolders(d, folders, n - 1), folders[n],
                     ReadFiles(d, WalkExcel(d, folders[n])))

-----
(* main(): a run *)

\* What select_crime_folders may return for main() to go on: some of the folders,
\* each once, in the order the user named them.
Selections ==
    {sel \in UNION {[1..n -> Range(Folders)] : n \in 1..Len(Folders)} :
        \A a, b \in DOMAIN sel : a # b => sel[a] # sel[b]}

NoCall ==
    [n |-> 0, p |-> 0, returned |-> FALSE, header_row |-> 0,
     before |-> InitialStats, seen |-> {}, processed |-> {}]

Unset == [set |-> FALSE, arg |-> <<>>, v |-> <<>>]

\* The variables a run does not use.
LabelsIdle ==
    /\ label = <<>> /\ once = Unset /\ twice = Unset /\ variant = Unset
    /\ df_columns = <<>> /\ mapped = Unset

\* DataExplorer() over a data_dir, and the folders selected.
Init ==
    /\ disk \in Disks
    /\ selected_folders \in Selections
    /\ excel_files = <<>>
    /\ stats = InitialStats
    /\ unified_data = <<>>
    /\ exploration_results = <<>>
    /\ pc = "get_excel_files"
    /\ i = 1
    /\ call = NoCall
    /\ coercions = {}
    /\ fragments = <<>>
    /\ summary = <<>>
    /\ LabelsIdle

\* explorer.get_excel_files(selected_folders)
GetExcelFiles ==
    /\ pc = "get_excel_files"
    /\ excel_files' = Flatten([n \in 1..Len(selected_folders) |->
                                  WalkExcel(disk, selected_folders[n])])
    /\ stats' = [stats EXCEPT !.total_files = Len(excel_files')]
    /\ pc' = "analyze"
    /\ UNCHANGED <<disk, selected_folders, unified_data, exploration_results, i,
                   call, coercions, fragments, summary, normVars, mapVars>>

\* A call of analyze_file on path p.
AnalyzeFile(p) ==
    \E r \in {analyze_file(stats, disk, p)} :
        /\ stats' = r.stats
        /\ call' = [n |-> call.n + 1, p |-> p, returned |-> r.returned,
                    header_row |-> r.header_row, before |-> stats,
                    seen |-> call.seen \cup {p},
                    processed |-> call.processed \cup (IF r.returned THEN {p} ELSE {})]
        /\ coercions' = coercions \cup r.coerced

\* One turn of main()'s loop: explorer.analyze_file(file_path)
AnalyzeNext ==
    /\ pc = "analyze"
    /\ i <= Len(excel_files)
    /\ AnalyzeFile(excel_files[i])
    /\ i' = i + 1
    /\ UNCHANGED <<disk, selected_folders, excel_files, unified_data,
                   exploration_results, pc, fragments, summary, normVars, mapVars>>

\* The loop is over: print_summary() and export_results() read the stats and
\* write to the console and the workbook.
Summarize ==
    /\ pc = "analyze"
    /\ i > Len(excel_files)
    /\ pc' = "unify"
    /\ summary' = build_summary_table(stats)
    /\ UNCHANGED <<disk, selected_folders, excel_files, stats, unified_data,
                   exploration_results, i, call, coercions, fragments, normVars, mapVars>>

\* explorer.unify_and_explore_by_folder(selected_folders), to its return or to
\* the exception that ends main().
UnifyAndExplore ==
    /\ pc = "unify"
    /\ \E r \in {UnifyFolders(disk, selected_folders, Len(selected_folders))} :
           /\ unified_data' = r.unified
           /\ exploration_results' = r.exploration
           /\ fragments' = r.fragments
           /\ coercions' = coercions \cup r.coerced
           /\ pc' = IF r.raised THEN "raised" ELSE "done"
    /\ UNCHANGED <<disk, selected_folders, excel_files, stats, i, call, summary,
                   normVars, mapVars>>

Next == GetExcelFiles \/ AnalyzeNext \/ Summarize \/ UnifyAndExplore

Spec == Init /\ [][Next]_vars

----------------------------------------------------------------------------
(* Calls of analyze_file by a caller other than main() *)

InitCalls ==
    /\ disk \in Disks
    /\ selected_folders = Folders
    /\ excel_files = <<>>
    /\ stats = InitialStats
    /\ unified_data = <<>>
    /\ exploration_results = <<>>
    /\ pc = "caller"
    /\ i = 1
    /\ call = NoCall
    /\ coercions = {}
    /\ fragments = <<>>
    /\ summary = <<>>
    /\ LabelsIdle

\* explorer.analyze_file(path) on a path not analysed before, of any extension.
CallAnalyzeFile ==
    /\ pc = "caller"
    /\ \E p \in DOMAIN disk \ call.seen : AnalyzeFile(p)
    /\ UNCHANGED <<disk, selected_folders, excel_files, unified_data,
                   exploration_results, pc, i, fragments, summary, normVars, mapVars>>

NextCalls == CallAnalyzeFile

SpecCalls == InitCalls /\ [][NextCalls]_vars

----------------------------------------------------------------------------
(* normalize_column on the labels of a small alphabet *)

LabelChars == {"e", "E", "é", " ", "_", "*"}

Labels == UNION {[1..n -> LabelChars] : n \in 0..MaxLen}

\* The labels that differ from s in one respect normalize_column is to ignore:
\* the case or the accent of a letter, an underscore for a space, a blank added
\* at either end or beside a blank, an asterisk added at either end.
Swaps ==
    {<<"e", "E">>, <<"E", "e">>, <<"é", "e">>, <<"e", "é">>, <<"_", " ">>, <<" ", "_">>}

Variants(s) ==
    UNION {{[s EXCEPT ![k] = sw[2]] : k \in {j \in 1..Len(s) : s[j] = sw[1]}} : sw \in Swaps}
    \cup {<<" ">> \o s, s \o <<" ">>, <<"*">> \o s, s \o <<"*">>}
    \cup {SubSeq(s, 1, k) \o <<" ">> \o SubSeq(s, k + 1, Len(s)) :
            k \in {j \in 1..Len(s) : s[j] = " "}}

RunIdle ==
    /\ disk = <<>> /\ selected_folders = <<>> /\ excel_files = <<>>
    /\ stats = InitialStats /\ unified_data = <<>> /\ exploration_results = <<>>
    /\ pc = "labels" /\ i = 1 /\ call = NoCall /\ coercions = {} /\ fragments = <<>>
    /\ summary = <<>>

InitNormalize ==
    /\ RunIdle
    /\ label \in Labels
    /\ once = Unset /\ twice = Unset /\ variant = Unset
    /\ df_columns = <<>> /\ mapped = Unset

Normalize ==
    /\ ~once.set
    /\ once' = [set |-> TRUE, arg |-> label, v |-> normalize_column(label)]
    /\ UNCHANGED <<label, twice, variant, runVars, mapVars>>

NormalizeAgain ==
    /\ once.set /\ ~twice.set
    /\ twice' = [set |-> TRUE, arg |-> once.v, v |-> normalize_column(once.v)]
    /\ UNCHANGED <<label, once, variant, runVars, mapVars>>

NormalizeVariant ==
    /\ twice.set /\ ~variant.set
    /\ \E other \in Variants(label) :
           variant' = [set |-> TRUE, arg |-> other, v |-> normalize_column(other)]
    /\ UNCHANGED <<label, once, twice, runVars, mapVars>>

NextNormalize == Normalize \/ NormalizeAgain \/ NormalizeVariant

SpecNormalize == InitNormalize /\ [][NextNormalize]_vars

----------------------------------------------------------------------------
(* map_columns_to_standard on frames whose labels are synonyms and other labels *)

AllSynonyms ==
    UNION {Range(COLUMN_SYNONYMS[n].synonyms) : n \in 1..Len(COLUMN_SYNONYMS)}

\* The labels of the frames: every listed synonym, labels that only normalize to
\* one, and labels that match none.
MapLabels ==
    {StrVal(syn) : syn \in AllSynonyms}
    \cup {StrVal(<<"G", "é", "n", "e", "r", "o", " ">>), StrVal(<<"N", "O", "M", "B", "R", "E">>), StrVal(<<"F", "E", "C", "H", "A", "S">>),
           IntVal(<<"2", "0", "2", "0">>)}

InitMap ==
    /\ RunIdle
    /\ label = <<>> /\ once = Unset /\ twice = Unset /\ variant = Unset
    /\ df_columns \in UNION {[1..n -> MapLabels] : n \in 1..MaxMapCols}
    /\ mapped = Unset

MapColumns ==
    /\ ~mapped.set
    /\ mapped' = [set |-> TRUE, arg |-> df_columns, v |-> map_columns_to_standard(df_columns)]
    /\ UNCHANGED <<df_columns, runVars, normVars>>

NextMap == MapColumns

SpecMap == InitMap /\ [][NextMap]_vars

---------------------------------------------------------------------------------------------------------------------------------------------------
(* find_header_row on its own: sheets of any depth *)

MaxTail == 2

\* The rows a sheet may end with: two with a keyword (lower case between blanks,
\* and inside a longer label next to a cell without a value), two without.
TailRows == {
    <<StrVal(<<" ", " ", "f", "e", "c", "h", "a", " ">>), StrVal(<<"N", "O", "M", "B", "R", "E">>)>>,
    <<None, StrVal(<<"M", "u", "n", "i", "c", "i", "p", "i", "o", "*">>)>>,
    <<None, None>>,
    <<StrVal(<<"N", "O", "M", "B", "R", "E">>), IntVal(<<"2", "0", "2", "0">>)>> }

\* The numbers of rows without a value a sheet may begin with: around the
\* fallback index and around the depth of the scan.
Depths == {0, 1, FallbackHeaderRow - 1, FallbackHeaderRow, FallbackHeaderRow + 1,
           MaxRowsScan - 1, MaxRowsScan, MaxRowsScan + 1}

Sheets ==
    {[r \in 1..k |-> <<None, None>>] \o tail :
        k \in Depths, tail \in UNION {[1..n -> TailRows] : n \in 0..MaxTail}}

\* One path of any extension, with a sheet or with bytes no decoder reads.
HeaderDisks ==
    {p :> c : p \in 1..Len(Paths),
              c \in {[ok |-> TRUE, rows |-> sh] : sh \in Sheets}
                     \cup {[ok |-> FALSE, rows |-> <<>>]}}

InitHeader ==
    /\ disk \in HeaderDisks
    /\ selected_folders = Folders
    /\ excel_files = <<>>
    /\ stats = InitialStats
    /\ unified_data = <<>>
    /\ exploration_results = <<>>
    /\ pc = "header"
    /\ i = 1
    /\ call = NoCall
    /\ coercions = {}
    /\ fragments = <<>>
    /\ summary = <<>>
    /\ LabelsIdle

\* explorer.find_header_row(path), with the default keywords and depth.
FindHeaderRow ==
    /\ pc = "header"
    /\ call.n = 0
    /\ \E p \in DOMAIN disk :
           call' = [NoCall EXCEPT !.n = 1, !.p = p, !.header_row = find_header_row(disk, p)]
    /\ UNCHANGED <<disk, selected_folders, excel_files, stats, unified_data,
                   exploration_results, pc, i, coercions, fragments, summary, normVars,
                   mapVars>>

NextHeader == FindHeaderRow

SpecHeader == InitHeader /\ [][NextHeader]_vars

-----
(* The claims *)

\* The stats an analyze_file call that only counted an error would leave.
OnlyErrorCounted == [call.before EXCEPT !.error_files = @ + 1]

Blank == Whitespace \cup {"*"}

CanonicalColumns == [n \in 1..Len(key_columns) |-> StrVal(key_columns[n])]

\* C1: when analyze_file ends in the error outcome (it returned False and counted
\* an error file), every other field of the stats is as it was before the call.
C1_ErrorLeavesNoTrace ==
    (call.n > 0 /\ ~call.returned) => stats = OnlyErrorCounted

\* C2: after unify_and_explore_by_folder has returned, unified_data holds for every
\* selected folder a table with exactly the eight canonical columns, each once, in
\* the order of COLUMN_SYNONYMS.
C2_UnifiedHasCanonicalColumns ==
    pc = "done" =>
        \A n \in 1..Len(selected_folders) :
            /\ selected_folders[n] \in DOMAIN unified_data
            /\ unified_data[selected_folders[n]].columns = CanonicalColumns

\* C3: normalize_column is idempotent: normalizing a normalized label changes
\* nothing.
C3_Idempotent ==
    twice.set => twice.v = once.v

\* C4: two labels that differ only in case, accents, underscore for space, blanks
\* around or repeated, or asterisks at the ends normalize to the same text, and a
\* normalized label neither begins nor ends with a blank or an asterisk.
C4_Insensitive ==
    /\ variant.set => variant.v = once.v
    /\ (once.set /\ once.v # <<>>) =>
           (Head(once.v) \notin Blank /\ once.v[Len(once.v)] \notin Blank)

\* C5: map_columns_to_standard renames a column labelled with a listed synonym of
\* a canonical column to that column, the normalized synonyms of two canonical
\* columns never meet, and a column whose normalized label is no normalized
\* synonym keeps its label.
C5_SynonymsMapToCanon ==
    /\ \A a, b \in 1..Len(COLUMN_SYNONYMS) :
           a # b => normalized_synonyms[a] \cap normalized_synonyms[b] = {}
    /\ mapped.set =>
           \A k \in 1..Len(df_columns) :
               /\ Len(mapped.v) = Len(df_columns)
               /\ \A n \in 1..Len(COLUMN_SYNONYMS) :
                      (df_columns[k].t = "str"
                          /\ df_columns[k].v \in Range(COLUMN_SYNONYMS[n].synonyms))
                      => mapped.v[k] = StrVal(COLUMN_SYNONYMS[n].std_col)
               /\ (\A n \in 1..Len(COLUMN_SYNONYMS) :
                      normalize_column(PyStr(df_columns[k])) \notin normalized_synonyms[n])
                  => mapped.v[k] = df_columns[k]

\* C5, its case: a frame with a listed synonym that is not the canonical name and
\* a label that matches nothing has been mapped.
C5_Witness ==
    /\ mapped.set
    /\ Len(df_columns) = 2
    /\ df_columns[1] = StrVal(<<"A", "R", "M", "A", " ", "M", "E", "D", "I", "O", " ", "*">>)
    /\ mapped.v[1] = StrVal(ARMAS_MEDIOS)
    /\ df_columns[2] = StrVal(<<"N", "O", "M", "B", "R", "E">>)
    /\ mapped.v[2] = df_columns[2]

\* C6: main() analyses every discovered file, in discovery order, whatever became
\* of the files before it; each call adds one to exactly one of processed_files
\* and error_files; and when the loop is over the two add up to the number of
\* files discovered, which is total_files.
C6_EveryFileCounted ==
    /\ pc # "get_excel_files" => stats.total_files = Len(excel_files)
    /\ pc = "analyze" =>
           /\ call.n = i - 1
           /\ call.seen = {excel_files[k] : k \in 1..(i - 1)}
           /\ call.n > 0 => call.p = excel_files[i - 1]
    /\ call.n > 0 =>
           \/ /\ stats.processed_files = call.before.processed_files + 1
              /\ stats.error_files = call.before.error_files
           \/ /\ stats.processed_files = call.before.processed_files
              /\ stats.error_files = call.before.error_files + 1
    /\ stats.processed_files + stats.error_files = call.n
    /\ pc \in {"unify", "done", "raised"} =>
           /\ call.n = Len(excel_files)
           /\ stats.processed_files + stats.error_files = stats.total_files

\* C6, its case: the loop is over two files, the first of which failed and the
\* second of which was processed.
C6_Witness ==
    /\ pc = "unify"
    /\ Len(excel_files) = 2
    /\ stats.error_files = 1
    /\ stats.processed_files = 1
    /\ call.returned

\* len(df) of the frame analyze_file reads from path p.
RowCount(p) == Len(read_excel(disk, p, find_header_row(disk, p)).rows)

\* C7: total_records is the sum of the row counts of the files analyze_file
\* processed (the calls that returned True), and the sum of records_per_file.
C7_TotalIsSumOfProcessed ==
    /\ stats.total_records = Sum([p \in call.processed |-> RowCount(p)], call.processed)
    /\ stats.total_records = Sum(stats.records_per_file, DOMAIN stats.records_per_file)

\* C8: no frame appended for unification bears one canonical name on two columns.
C8_FragmentHasNoDuplicateCanon ==
    \A folder \in DOMAIN fragments :
        \A k \in 1..Len(fragments[folder]) :
            \A a, b \in 1..Len(fragments[folder][k]) :
                (a < b /\ fragments[folder][k][a] \in Range(CanonicalColumns))
                    => fragments[folder][k][a] # fragments[folder][k][b]

\* C9: after the coercion step every cell is a str, and a cell read without a
\* value (None or NaN) is the empty string.
C9_MissingBecomesEmpty ==
    \A pair \in coercions :
        /\ pair[2].t = "str"
        /\ IsNull(pair[1]) => pair[2].v = <<>>

SheetRows == disk[call.p].rows

\* A row in which a cell with a value, upper-cased and trimmed, contains a keyword.
KeywordRow(r) ==
    \E k \in 1..Len(SheetRows[r]) :
        /\ SheetRows[r][k] # None
        /\ \E keyword \in search_keywords :
               Contains(Upper(Strip(SheetRows[r][k].v, Whitespace)), keyword)

\* The rows within the depth of the scan.
ScannedRows == {r \in 1..Len(SheetRows) : r <= 30}

\* C11: on a sheet that opens, find_header_row returns the zero-based index of the
\* first row among the first 30 in which a cell, upper-cased and trimmed, contains
\* a keyword, and 10 when no such row is within the depth, also on a sheet of
\* fewer than 11 rows.
C11_FirstKeywordRowOrFallback ==
    (pc = "header" /\ call.n = 1 /\ disk[call.p].ok
        /\ Paths[call.p].ext \in {".xlsx", ".xls"}) =>
        /\ (\A r \in ScannedRows : ~KeywordRow(r)) => call.header_row = 10
        /\ \A r \in ScannedRows :
               (KeywordRow(r) /\ \A q \in 1..(r - 1) : ~KeywordRow(q))
                   => call.header_row = r - 1

\* C11, its case: an .xls sheet whose row 31 is the first with a keyword, and the
\* index returned is the fallback.
C11_Witness ==
    /\ pc = "header" /\ call.n = 1 /\ disk[call.p].ok
    /\ Paths[call.p].ext = ".xls"
    /\ Len(SheetRows) = 32
    /\ KeywordRow(31) /\ KeywordRow(32)
    /\ \A r \in 1..30 : ~KeywordRow(r)
    /\ call.header_row = 10

\* C12: the report deep_exploration makes of a table with rows, which has the
\* column FECHA HECHO, holds a distribution of the years.
C12_ReportHasYearDistribution ==
    pc = "done" =>
        \A folder \in DOMAIN exploration_results :
            (exploration_results[folder].is_dict
                /\ Len(unified_data[folder].rows) > 0
                /\ StrVal(FECHA_HECHO) \in Range(unified_data[folder].columns))
            => "distribucion_año" \in DOMAIN exploration_results[folder].value

\* The frame analyze_file analyses for path p, after the coercion.
FrameOf(p) == applymap(read_excel(disk, p, find_header_row(disk, p)))

\* The statistics of the column labelled col of a frame.
StatsOfColumn(df, col) ==
    LET cells == Column(df, CHOOSE k \in 1..Len(df.columns) : df.columns[k] = col)
    IN  [unique_values |-> Cardinality(Range(cells)),
         missing_values |-> Cardinality({r \in DOMAIN cells : IsNull(cells[r])}),
         data_type |-> "object"]

\* The k-th file of the run is a processed file of the category with the column.
ProcessedWithColumn(k, category, col) ==
    /\ excel_files[k] \in call.processed
    /\ Paths[excel_files[k]].folder = category
    /\ col \in Range(FrameOf(excel_files[k]).columns)

\* C13: every entry column_stats[category][column] holds the statistics computed
\* from the first processed file of the category that has the column.
C13_EntryFromFirstProcessedFile ==
    \A category \in DOMAIN stats.column_stats :
        \A col \in DOMAIN stats.column_stats[category] :
            \E k \in 1..Len(excel_files) :
                /\ ProcessedWithColumn(k, category, col)
                /\ \A q \in 1..(k - 1) : ~ProcessedWithColumn(q, category, col)
                /\ stats.column_stats[category][col]
                       = StatsOfColumn(FrameOf(excel_files[k]), col)

\* The cells without a value in the column labelled col of the sheet at path p.
MissingIn(p, col) ==
    LET read == read_excel(disk, p, find_header_row(disk, p))
    IN  IF col \notin Range(read.columns) THEN 0
        ELSE Cardinality({r \in 1..Len(read.rows) :
                 IsNull(read.rows[r][CHOOSE k \in 1..Len(read.columns) : read.columns[k] = col])})

\* The processed files of a category.
ProcessedIn(category) == {p \in call.processed : Paths[p].folder = category}

\* The cells without a value under col in all the processed files of a category.
MissingInCategory(category, col) ==
    Sum([p \in ProcessedIn(category) |-> MissingIn(p, col)], ProcessedIn(category))

\* The labels that lack a value in some processed file of a category.
MissingColumns(category) ==
    {col \in UNION {Range(read_excel(disk, p, find_header_row(disk, p)).columns) :
                       p \in ProcessedIn(category)} :
        MissingInCategory(category, col) > 0}

\* C14: in the summary table the missing values of a category are "0" exactly when
\* no processed file of the category lacks a value, and otherwise the listing of
\* the count per column over all the processed files of the category.
C14_MissingListingCoversAllFiles ==
    pc \in {"unify", "done", "raised"} =>
        \A category \in DOMAIN summary :
            /\ summary[category].valores_faltantes.t = "str"
                   <=> MissingColumns(category) = {}
            /\ MissingColumns(category) # {} =>
                   /\ summary[category].valores_faltantes.t = "listing"
                   /\ summary[category].valores_faltantes.v
                          = [col \in MissingColumns(category) |->
                                MissingInCategory(category, col)]

====
